---------------------------- MODULE Spec2Model ----------------------------
(***************************************************************************)
(* Option Trader ML v2.0 (src/main.py): the scoring-and-deduplication      *)
(* pipeline.  Raw feed records are normalised (safe_float), scored         *)
(* (ml_timeframe_score over five decayed timeframes, ml_ensemble,          *)
(* darkpool_boost), filtered by the two floors in the message builders,    *)
(* and de-duplicated per feed by get_unique_id_from_record.                *)
(*                                                                         *)
(* Representation.  A Python float is [nan, v]: nan marks float("nan"),    *)
(* v is the value in a fixed-point unit (premium in 1/20 dollar, delta in   *)
(* 1/10000, vol/OI and DTE in 1/10, notional in dollars), so that every   *)
(* decayed value premium*0.9 ... delta*0.8 used here is exact.  A Python   *)
(* str is a sequence of one-character strings.  A raw JSON value is        *)
(* [t, x, s]: t = "none" (missing or null), "num" (number x) or "str"      *)
(* (string s).                                                             *)
(***************************************************************************)
EXTENDS Integers, Sequences, FiniteSets, TLC

VARIABLES
    seen_unusual_ids,   \* set of keys already alerted on the unusual feed
    seen_flow_ids,      \* set of keys already alerted on the flow feed
    calls,              \* <<feed, key>> -> number of send_telegram_message calls
    alerts,             \* every message handed to send_telegram_message
    task,               \* the task that ran last ("none" before the first)
    rejected,           \* <<feed, record>> pairs a builder has returned None for
    skipped,            \* <<feed, record>> pairs the dedup check has passed over
    polls,              \* number of poll cycles run
    args,               \* scorer inputs under study
    score,              \* ml_timeframe_score(args)
    final,              \* ensemble result for args: [dir, mean5, raw, score]
    opt,                \* raw record handed to a message builder
    builder,            \* which builder evaluated opt
    msg,                \* what the builder returned
    idrec,              \* raw record handed to get_unique_id_from_record
    uid,                \* the key it returned
    previd,             \* the record keyed before idrec
    prevuid             \* its key

vars == <<seen_unusual_ids, seen_flow_ids, calls, alerts, task, rejected,
          skipped, polls, args, score, final, opt, builder, msg,
          idrec, uid, previd, prevuid>>

pipeVars  == <<seen_unusual_ids, seen_flow_ids, calls, alerts, task, rejected,
               skipped, polls>>
scoreVars == <<args, score, final>>
buildVars == <<opt, builder, msg>>
idVars    == <<idrec, uid, previd, prevuid>>

-----------------------------------------------------------------------------
(* configuration, src/main.py:24-25 *)
MIN_PREMIUM_USD == 50000
MIN_CONFIDENCE_SCORE == 70

(* fixed-point units of the float representation *)
Twentieths == 20
DeltaUnit == 10000
Tenths == 10

-----------------------------------------------------------------------------
(* Python floats *)
NaN == [nan |-> TRUE, v |-> 0]
F(n) == [nan |-> FALSE, v |-> n]

\* x >= t, x < t, x <= t, x > t for a float x and a finite t: every
\* comparison with nan is False
GE(x, t) == ~x.nan /\ x.v >= t
LT(x, t) == ~x.nan /\ x.v < t
LE(x, t) == ~x.nan /\ x.v <= t
GT(x, t) == ~x.nan /\ x.v > t

\* x * (k/20): 0.95, 0.9, 0.85, 0.8, 0.75 are 19, 18, 17, 16, 15 twentieths
Times(x, k) == IF x.nan THEN NaN ELSE F((x.v * k) \div 20)

\* abs(x)
Abs(x) == IF x.nan THEN NaN ELSE F(IF x.v < 0 THEN -x.v ELSE x.v)

Min(a, b) == IF a <= b THEN a ELSE b

-----------------------------------------------------------------------------
(* Python strings as character sequences *)
Digits == <<"0","1","2","3","4","5","6","7","8","9">>

\* the cased characters and their upper-case forms
ToUpper ==
    [a |-> "A", b |-> "B", c |-> "C", d |-> "D", e |-> "E", f |-> "F",
     g |-> "G", h |-> "H", i |-> "I", j |-> "J", k |-> "K", l |-> "L",
     m |-> "M", n |-> "N", o |-> "O", p |-> "P", q |-> "Q", r |-> "R",
     s |-> "S", t |-> "T", u |-> "U", v |-> "V", w |-> "W", x |-> "X",
     y |-> "Y", z |-> "Z"]

UpperChar(c) == IF c \in DOMAIN ToUpper THEN ToUpper[c] ELSE c

\* str.upper()
Upper(s) == [i \in 1..Len(s) |-> UpperChar(s[i])]

\* sub in s
Contains(sub, s) ==
    \E i \in 0..(Len(s) - Len(sub)) :
        \A j \in 1..Len(sub) : s[i + j] = sub[j]

\* s.replace(c, "")
RECURSIVE Remove(_, _)
Remove(s, c) ==
    IF s = <<>> THEN <<>>
    ELSE IF Head(s) = c THEN Remove(Tail(s), c)
    ELSE <<Head(s)>> \o Remove(Tail(s), c)

\* str(n) for an int n >= 0
RECURSIVE StrNat(_)
StrNat(n) ==
    IF n < 10 THEN <<Digits[n + 1]>>
    ELSE StrNat(n \div 10) \o <<Digits[(n % 10) + 1]>>

StrInt(n) == IF n < 0 THEN <<"-">> \o StrNat(-n) ELSE StrNat(n)

IsDigit(c) == \E i \in 1..10 : Digits[i] = c
DigitVal(c) == (CHOOSE i \in 1..10 : Digits[i] = c) - 1

\* value of a digit string
RECURSIVE NatOf(_)
NatOf(s) ==
    IF s = <<>> THEN 0
    ELSE NatOf(SubSeq(s, 1, Len(s) - 1)) * 10 + DigitVal(s[Len(s)])

SWEEP == <<"S","W","E","E","P">>
BLOCK == <<"B","L","O","C","K">>
BULLISH == <<"B","U","L","L","I","S","H">>
BEARISH == <<"B","E","A","R","I","S","H">>
NEUTRAL == <<"N","E","U","T","R","A","L">>
NAN == <<"N","A","N">>

-----------------------------------------------------------------------------
(* raw JSON values *)
None == [t |-> "none", x |-> F(0), s |-> <<>>]
Num(x) == [t |-> "num", x |-> x, s |-> <<>>]
Str(s) == [t |-> "str", x |-> F(0), s |-> s]

\* Python truthiness of a raw value: None, 0, 0.0 and "" are falsy
Truthy(val) ==
    \/ val.t = "num" /\ (val.x.nan \/ val.x.v # 0)
    \/ val.t = "str" /\ val.s # <<>>

\* a or b
Or(a, b) == IF Truthy(a) THEN a ELSE b

\* str(value) for a string, or a whole number held in the given unit
PyStr(val, unit) ==
    IF val.t = "str" THEN val.s
    ELSE IF val.t = "none" THEN <<"N","o","n","e">>
    ELSE IF val.x.nan THEN <<"n","a","n">>
    ELSE StrInt(val.x.v \div unit)

\* float(s) for the literals [-]digits, "nan" in any case; "fail" stands
\* for the ValueError every other text raises
PyFloat(s, unit) ==
    LET neg  == s # <<>> /\ Head(s) = "-"
        body == IF neg THEN Tail(s) ELSE s
    IN  IF Upper(body) = NAN THEN [ok |-> TRUE, f |-> NaN]
        ELSE IF body # <<>> /\ \A i \in 1..Len(body) : IsDigit(body[i])
        THEN [ok |-> TRUE,
              f  |-> F((IF neg THEN -1 ELSE 1) * NatOf(body) * unit)]
        ELSE [ok |-> FALSE, f |-> NaN]

safe_float(value, default, unit) ==
    IF value.t = "none" THEN default
    ELSE IF value.t = "num" THEN value.x
    ELSE LET p == PyFloat(Remove(value.s, ","), unit)
         IN  IF p.ok THEN p.f ELSE default

-----------------------------------------------------------------------------
(* helpers and scoring engine, src/main.py:102-206 *)

classify_direction_from_delta(delta) ==
    IF GE(delta, 3000) THEN BULLISH
    ELSE IF LE(delta, -3000) THEN BEARISH
    ELSE NEUTRAL

\* faulty variant of premium_weight: the top tier starts at the whale
\* threshold of 500,000
premium_weight_whale_tier(premium) ==
    IF GE(premium, 500000 * Twentieths) THEN 40
    ELSE IF GE(premium, 250000 * Twentieths) THEN 30
    ELSE IF GE(premium, 50000 * Twentieths) THEN 20
    ELSE 0

\* the six additions to `score` of ml_timeframe_score, lines 131-170
premium_weight(premium) ==
    IF GE(premium, 1000000 * Twentieths) THEN 40
    ELSE IF GE(premium, 250000 * Twentieths) THEN 30
    ELSE IF GE(premium, 50000 * Twentieths) THEN 20
    ELSE 0

vol_oi_weight(vol_oi) ==
    IF GE(vol_oi, 20 * Tenths) THEN 30
    ELSE IF GE(vol_oi, 10 * Tenths) THEN 20
    ELSE IF GE(vol_oi, 5 * Tenths) THEN 10
    ELSE 0

\* faulty variant of delta_weight: abs() is missing
delta_weight_signed(delta) ==
    IF GE(delta, 9000) THEN 20
    ELSE IF GE(delta, 7000) THEN 15
    ELSE IF GE(delta, 5000) THEN 10
    ELSE 0

delta_weight(delta) ==
    IF GE(Abs(delta), 9000) THEN 20
    ELSE IF GE(Abs(delta), 7000) THEN 15
    ELSE IF GE(Abs(delta), 5000) THEN 10
    ELSE 0

dte_weight(dte) ==
    IF LE(dte, 1 * Tenths) THEN 20
    ELSE IF LE(dte, 3 * Tenths) THEN 10
    ELSE 0

\* faulty variant of order_type_weight: BLOCK is tested with elif
order_type_weight_elif(order_type) ==
    LET ot == Upper(Or(order_type, Str(<<>>)).s)
    IN  IF Contains(SWEEP, ot) THEN 15
        ELSE IF Contains(BLOCK, ot) THEN 20
        ELSE 0

order_type_weight(order_type) ==
    LET ot == Upper(Or(order_type, Str(<<>>)).s)
    IN  (IF Contains(SWEEP, ot) THEN 15 ELSE 0)
        + (IF Contains(BLOCK, ot) THEN 20 ELSE 0)

direction_weight(direction) ==
    IF direction \in {BULLISH, BEARISH} THEN 10 ELSE 0

ml_timeframe_score(premium, vol_oi, delta, dte, order_type, direction) ==
    Min(premium_weight(premium) + vol_oi_weight(vol_oi) + delta_weight(delta)
          + dte_weight(dte) + order_type_weight(order_type)
          + direction_weight(direction),
        100)

Labels == {"5m", "15m", "30m", "60m", "EOD"}

ml_multi_timeframe_predictions(premium, vol_oi, delta, dte, order_type, direction) ==
    [l \in Labels |->
       CASE l = "5m"  -> ml_timeframe_score(premium, vol_oi, delta,
                                            dte, order_type, direction)
         [] l = "15m" -> ml_timeframe_score(Times(premium, 18), vol_oi,
                                            Times(delta, 19),
                                            dte, order_type, direction)
         [] l = "30m" -> ml_timeframe_score(Times(premium, 17), vol_oi,
                                            Times(delta, 18),
                                            dte, order_type, direction)
         [] l = "60m" -> ml_timeframe_score(Times(premium, 16), vol_oi,
                                            Times(delta, 17),
                                            dte, order_type, direction)
         [] l = "EOD" -> ml_timeframe_score(Times(premium, 15), vol_oi,
                                            Times(delta, 16),
                                            dte, order_type, direction)]

\* sum(preds.values())
RECURSIVE SumOver(_, _)
SumOver(preds, ks) ==
    IF ks = {} THEN 0
    ELSE LET k == CHOOSE k \in ks : TRUE
         IN  preds[k] + SumOver(preds, ks \ {k})

\* int(round(n / d)) for ints n >= 0, d > 0: round half to even
RoundDiv(n, d) ==
    LET q == n \div d
        r == n % d
    IN  IF 2 * r < d THEN q
        ELSE IF 2 * r > d THEN q + 1
        ELSE IF q % 2 = 0 THEN q ELSE q + 1

\* faulty variant of ml_ensemble: BULLISH needs avg > 60
ml_ensemble_strict(preds) ==
    LET n   == Cardinality(DOMAIN preds)
        sum == SumOver(preds, DOMAIN preds)
    IN  IF n = 0 THEN [dir |-> BEARISH, score |-> 0]
        ELSE [dir   |-> IF sum > 60 * n THEN BULLISH ELSE BEARISH,
              score |-> RoundDiv(sum, n)]

\* faulty variant of ml_ensemble: the two labels are swapped
ml_ensemble_swapped(preds) ==
    LET n   == Cardinality(DOMAIN preds)
        sum == SumOver(preds, DOMAIN preds)
    IN  IF n = 0 THEN [dir |-> BULLISH, score |-> 0]
        ELSE [dir   |-> IF sum >= 60 * n THEN BEARISH ELSE BULLISH,
              score |-> RoundDiv(sum, n)]

\* returns (direction, int(round(avg))); avg >= 60 iff sum >= 60 * len
ml_ensemble(preds) ==
    LET n   == Cardinality(DOMAIN preds)
        sum == SumOver(preds, DOMAIN preds)
    IN  IF n = 0 THEN [dir |-> BEARISH, score |-> 0]
        ELSE [dir   |-> IF sum >= 60 * n THEN BULLISH ELSE BEARISH,
              score |-> RoundDiv(sum, n)]

detect_whale(premium, vol_oi, delta, order_type) ==
    \/ GE(premium, 500000 * Twentieths)
    \/ GE(vol_oi, 20 * Tenths)
    \/ GE(Abs(delta), 8000)
    \/ Contains(BLOCK, Upper(Or(order_type, Str(<<>>)).s))

darkpool_boost(notional) ==
    IF GE(notional, 100000000) THEN 30
    ELSE IF GE(notional, 50000000) THEN 20
    ELSE IF GE(notional, 10000000) THEN 10
    ELSE 0

-----------------------------------------------------------------------------
(* unique id, src/main.py:212-218 *)

\* "|".join(parts)
RECURSIVE Join(_)
Join(parts) ==
    IF Len(parts) = 0 THEN <<>>
    ELSE IF Len(parts) = 1 THEN parts[1]
    ELSE parts[1] \o <<"|">> \o Join(Tail(parts))

Empty == Str(<<>>)

\* faulty variant of get_unique_id_from_record: the order type is part of
\* the key
get_unique_id_with_type(rec) ==
    LET base    == PyStr(Or(Or(rec.baseSymbol, rec.symbol), Empty), 1)
        strike  == PyStr(Or(rec.strikePrice, Empty), 1)
        exp     == PyStr(Or(rec.expirationDate, Empty), 1)
        premium == PyStr(Or(rec.premium, Empty), Twentieths)
        ts      == PyStr(Or(Or(rec.timestamp, rec.time), Empty), 1)
        type    == PyStr(Or(rec.type, Empty), 1)
    IN  Join(<<base, strike, exp, premium, ts, type>>)

get_unique_id_from_record(rec) ==
    LET base    == PyStr(Or(Or(rec.baseSymbol, rec.symbol), Empty), 1)
        strike  == PyStr(Or(rec.strikePrice, Empty), 1)
        exp     == PyStr(Or(rec.expirationDate, Empty), 1)
        premium == PyStr(Or(rec.premium, Empty), Twentieths)
        ts      == PyStr(Or(Or(rec.timestamp, rec.time), Empty), 1)
    IN  Join(<<base, strike, exp, premium, ts>>)

-----------------------------------------------------------------------------
(* message builders, src/main.py:221-336.  The returned text is modelled   *)
(* by the values it renders: the direction label, the conviction score,    *)
(* the premium and, in the unusual-activity text only, the whale trigger   *)
(* line and the per-timeframe scores.                                      *)

NoMessage ==
    [alert |-> FALSE, ensemble_dir |-> <<>>, ensemble_score |-> 0,
     whale |-> FALSE, tf_preds |-> [l \in Labels |-> 0], premium |-> F(0)]

build_combined_ml_unusual_message(o) ==
    LET dte           == safe_float(o.daysToExpiration, F(0), Tenths)
        delta         == safe_float(o.delta, F(0), DeltaUnit)
        premium       == safe_float(o.premium, F(0), Twentieths)
        vol_oi        == safe_float(o.volumeOpenInterestRatio, F(0), Tenths)
        order_type    == Or(Or(o.type, o.tradeType), Empty)
        dark_notional == safe_float(o.darkpoolNotional, F(0), 1)
        direction     == classify_direction_from_delta(delta)
        tf_preds      == ml_multi_timeframe_predictions(
                             premium, vol_oi, delta, dte, order_type, direction)
        ens           == ml_ensemble(tf_preds)
        ensemble_score == Min(100, ens.score + darkpool_boost(dark_notional))
    IN  IF LT(premium, MIN_PREMIUM_USD * Twentieths) THEN NoMessage
        ELSE IF ensemble_score < MIN_CONFIDENCE_SCORE THEN NoMessage
        ELSE [alert |-> TRUE, ensemble_dir |-> ens.dir,
              ensemble_score |-> ensemble_score,
              whale |-> detect_whale(premium, vol_oi, delta, order_type),
              tf_preds |-> tf_preds, premium |-> premium]

build_smart_money_flow_message(flow) ==
    LET direction     == Upper(PyStr(Or(flow.direction, Empty), 1))
        premium       == safe_float(flow.premium, F(0), Twentieths)
        vol_oi        == safe_float(flow.volumeOpenInterestRatio, F(0), Tenths)
        dte           == safe_float(flow.daysToExpiration, F(0), Tenths)
        delta         == safe_float(flow.delta, F(0), DeltaUnit)
        order_type    == Or(Or(flow.type, flow.tradeType), Empty)
        dark_notional == safe_float(flow.darkpoolNotional, F(0), 1)
        tf_preds      == ml_multi_timeframe_predictions(
                             premium, vol_oi, delta, dte, order_type, direction)
        ens           == ml_ensemble(tf_preds)
        ensemble_score == Min(100, ens.score + darkpool_boost(dark_notional))
    IN  IF LT(premium, MIN_PREMIUM_USD * Twentieths) THEN NoMessage
        ELSE IF ensemble_score < MIN_CONFIDENCE_SCORE THEN NoMessage
        ELSE [alert |-> TRUE, ensemble_dir |-> ens.dir,
              ensemble_score |-> ensemble_score,
              whale |-> FALSE,
              tf_preds |-> [l \in Labels |-> 0], premium |-> premium]

-----------------------------------------------------------------------------
(* The scoring engine on its own: the arguments of ml_timeframe_score and  *)
(* the dark-pool notional range over small sets that straddle every tier   *)
(* boundary; each step changes one argument and scores again.              *)

Premiums ==
    {NaN, F(-100000 * Twentieths), F(50000 * Twentieths),
     F(250000 * Twentieths), F(1250000 * Twentieths)}
VolOis == {F(49), F(50), F(100), F(200)}
Deltas == {F(-9500), F(1000), F(5000), F(7000), F(500000)}
Dtes == {F(10), F(30), F(300)}
OrderTypes ==
    {None, Str(<<"s","w","e","e","p">>), Str(BLOCK),
     Str(<<"S","w","e","e","p","/","B","l","o","c","k">>)}
Directions == {BULLISH, NEUTRAL}
Notionals ==
    {F(0), F(9900000), F(10000000), F(50000000), F(100000000)}

ScorerArgs ==
    [premium : Premiums, vol_oi : VolOis, delta : Deltas, dte : Dtes,
     order_type : OrderTypes, direction : Directions, notional : Notionals]

\* src/main.py:128-172 applied to a
ScoreOf(a) ==
    ml_timeframe_score(a.premium, a.vol_oi, a.delta, a.dte,
                       a.order_type, a.direction)

\* src/main.py:240-243 and 303-305: predictions, ensemble, boost and cap
EnsembleOf(a) ==
    LET tf_preds == ml_multi_timeframe_predictions(
                        a.premium, a.vol_oi, a.delta, a.dte,
                        a.order_type, a.direction)
        ens      == ml_ensemble(tf_preds)
    IN  [dir   |-> ens.dir,
         preds |-> tf_preds,
         score |-> Min(100, ens.score + darkpool_boost(a.notional))]

Rescore(a) ==
    /\ args' = a
    /\ score' = ScoreOf(a)
    /\ final' = EnsembleOf(a)
    /\ UNCHANGED <<pipeVars, buildVars, idVars>>

SetPremium   == \E x \in Premiums   : Rescore([args EXCEPT !.premium = x])
SetVolOi     == \E x \in VolOis     : Rescore([args EXCEPT !.vol_oi = x])
SetDelta     == \E x \in Deltas     : Rescore([args EXCEPT !.delta = x])
SetDte       == \E x \in Dtes       : Rescore([args EXCEPT !.dte = x])
SetOrderType == \E x \in OrderTypes : Rescore([args EXCEPT !.order_type = x])
SetDirection == \E x \in Directions : Rescore([args EXCEPT !.direction = x])
SetNotional  == \E x \in Notionals  : Rescore([args EXCEPT !.notional = x])

-----------------------------------------------------------------------------
(* Raw records.  Only the fields that decide a key, a score or a floor are *)
(* kept; symbolType, volume, openInterest, volatility and exchange are     *)
(* rendered into the text and read nowhere else.                           *)

XYZ == Str(<<"X","Y","Z">>)
ABC == Str(<<"A","B","C">>)
Dollars(n) == Num(F(n * Twentieths))

BaseRecord ==
    [baseSymbol |-> XYZ, symbol |-> None, strikePrice |-> None,
     expirationDate |-> None, premium |-> Dollars(600000),
     timestamp |-> None, time |-> None,
     daysToExpiration |-> Num(F(10)), delta |-> Num(F(9500)),
     volumeOpenInterestRatio |-> Num(F(250)),
     type |-> Str(SWEEP), tradeType |-> None,
     darkpoolNotional |-> Num(F(0)), direction |-> None]

\* the record of the end-to-end example
ExampleRecord == BaseRecord

\* same five identity fields as ExampleRecord, weak on every other factor
QuietRecord ==
    [BaseRecord EXCEPT !.volumeOpenInterestRatio = Num(F(10)),
                       !.delta = Num(F(1000)),
                       !.daysToExpiration = Num(F(300)),
                       !.type = None]

\* below the premium floor
SmallRecord ==
    [BaseRecord EXCEPT !.baseSymbol = ABC, !.premium = Dollars(10000)]

\* mean below 60, lifted over the confidence floor by the dark-pool boost
BoostedRecord ==
    [BaseRecord EXCEPT !.baseSymbol = ABC, !.premium = Dollars(60000),
                       !.delta = Num(F(-9500)),
                       !.volumeOpenInterestRatio = Num(F(10)),
                       !.type = None,
                       !.direction = Str(<<"b","e","a","r","i","s","h">>),
                       !.darkpoolNotional = Num(F(50000000))]

\* premium text that parses to nan
NanRecord ==
    [BaseRecord EXCEPT !.baseSymbol = ABC, !.premium = Str(<<"n","a","n">>),
                       !.daysToExpiration = Num(F(0))]

Records == {ExampleRecord, QuietRecord, SmallRecord, BoostedRecord, NanRecord}

Feeds == {"unusual", "flow"}

-----------------------------------------------------------------------------
(* tasks, src/main.py:339-375 *)

MaxBatch == 2
MaxPolls == 3

\* what the fetchers can return: ensure_list_of_dicts gives a list of
\* records, empty on any failure
Batches == UNION {[1..n -> Records] : n \in 0..MaxBatch}

\* the builders and the key are pure functions of the record (the clock
\* is read only for the text's time line): their values over Records
UnusualMessage == [r \in Records |-> build_combined_ml_unusual_message(r)]
FlowMessage == [r \in Records |-> build_smart_money_flow_message(r)]
KeyOf == [r \in Records |-> get_unique_id_from_record(r)]

Keys == {KeyOf[r] : r \in Records}

\* faulty variant of the check on line 351: it is never true
SeenUnusual_never(u, seen) == FALSE

\* faulty variant of the check on line 351: the flow feed's set is
\* consulted too
SeenUnusual_either(u, seen) == u \in seen \/ u \in seen_flow_ids

\* uid in seen_unusual_ids, src/main.py:351
SeenUnusual(u, seen) == u \in seen
\* uid in seen_flow_ids, src/main.py:370
SeenFlow(u, seen) == u \in seen

\* the locals of one run of a task's loop: the seen set, the messages
\* handed to send_telegram_message, the records the builder returned None
\* for and the records passed over by `continue`
LoopStart(seen) ==
    [seen |-> seen, sent |-> <<>>, rejected |-> {}, skipped |-> {}]

\* send_telegram_message(msg), src/main.py:33-48: one POST; a failure is
\* logged and nothing is returned or raised, so the caller's state is the
\* same whether or not the message arrives
Send(st, feed, u, rec, m) ==
    [st EXCEPT !.sent = Append(@, [feed |-> feed, key |-> u, rec |-> rec,
                                   msg |-> m])]

\* faulty variant of the loop body: the key is added before the builder has
\* decided
UnusualIteration_add_first(st, rec) ==
    LET u == KeyOf[rec]
    IN  IF SeenUnusual(u, st.seen)
        THEN [st EXCEPT !.skipped = @ \cup {rec}]
        ELSE LET m  == UnusualMessage[rec]
                 s1 == [st EXCEPT !.seen = @ \cup {u}]
             IN  IF m.alert
                 THEN Send(s1, "unusual", u, rec, m)
                 ELSE [s1 EXCEPT !.rejected = @ \cup {rec}]

\* one iteration of the loop of run_unusual_options_task, lines 349-356
UnusualIteration(st, rec) ==
    LET u == KeyOf[rec]
    IN  IF SeenUnusual(u, st.seen)
        THEN [st EXCEPT !.skipped = @ \cup {rec}]
        ELSE LET m == UnusualMessage[rec]
             IN  IF m.alert
                 THEN Send([st EXCEPT !.seen = @ \cup {u}],
                           "unusual", u, rec, m)
                 ELSE [st EXCEPT !.rejected = @ \cup {rec}]

\* one iteration of the loop of run_options_flow_task, lines 368-375
FlowIteration(st, rec) ==
    LET u == KeyOf[rec]
    IN  IF SeenFlow(u, st.seen)
        THEN [st EXCEPT !.skipped = @ \cup {rec}]
        ELSE LET m == FlowMessage[rec]
             IN  IF m.alert
                 THEN Send([st EXCEPT !.seen = @ \cup {u}],
                           "flow", u, rec, m)
                 ELSE [st EXCEPT !.rejected = @ \cup {rec}]

RECURSIVE UnusualLoop(_, _, _)
UnusualLoop(st, recs, i) ==
    IF i > Len(recs) THEN st
    ELSE UnusualLoop(UnusualIteration(st, recs[i]), recs, i + 1)

RECURSIVE FlowLoop(_, _, _)
FlowLoop(st, recs, i) ==
    IF i > Len(recs) THEN st
    ELSE FlowLoop(FlowIteration(st, recs[i]), recs, i + 1)

\* the calls counter after the sends of one run
RECURSIVE Counted(_, _)
Counted(c, sent) ==
    IF sent = <<>> THEN c
    ELSE LET a == Head(sent)
         IN  Counted([c EXCEPT ![<<a.feed, a.key>>] = @ + 1], Tail(sent))

Range(q) == {q[i] : i \in DOMAIN q}

\* the main loop (lines 404-419) runs the unusual task and then the flow
\* task in every iteration in which they are due; both intervals are 60 s
run_unusual_options_task ==
    /\ task # "unusual"
    /\ polls < MaxPolls
    /\ \E recs \in Batches :
           LET st == UnusualLoop(LoopStart(seen_unusual_ids), recs, 1)
           IN  /\ seen_unusual_ids' = st.seen
               /\ calls' = Counted(calls, st.sent)
               /\ alerts' = alerts \cup Range(st.sent)
               /\ rejected' = rejected \cup {<<"unusual", r>> : r \in st.rejected}
               /\ skipped' = skipped \cup {<<"unusual", r>> : r \in st.skipped}
    /\ task' = "unusual"
    /\ polls' = polls + 1
    /\ UNCHANGED <<seen_flow_ids, scoreVars, buildVars, idVars>>

run_options_flow_task ==
    /\ task = "unusual"
    /\ polls < MaxPolls
    /\ \E recs \in Batches :
           LET st == FlowLoop(LoopStart(seen_flow_ids), recs, 1)
           IN  /\ seen_flow_ids' = st.seen
               /\ calls' = Counted(calls, st.sent)
               /\ alerts' = alerts \cup Range(st.sent)
               /\ rejected' = rejected \cup {<<"flow", r>> : r \in st.rejected}
               /\ skipped' = skipped \cup {<<"flow", r>> : r \in st.skipped}
    /\ task' = "flow"
    /\ polls' = polls + 1
    /\ UNCHANGED <<seen_unusual_ids, scoreVars, buildVars, idVars>>

-----------------------------------------------------------------------------
(* The message builders on their own: a raw record whose fields range over *)
(* missing, numeric and text values on both sides of each floor; each step *)
(* changes one field and hands the record to one of the builders.          *)

RawPremiums ==
    {Dollars(49999), Dollars(50000), Dollars(600000),
     Str(<<"1",",","2","5","0",",","0","0","0">>),
     Str(<<"n","a","n">>), Str(<<"N","/","A">>)}
RawVolOis == {None, Num(F(100)), Num(F(250))}
RawDeltas == {Num(F(-9500)), Num(F(-3000)), Num(F(1000)), Num(F(9500))}
RawDtes == {Num(F(10)), Num(F(300))}
RawTypes == {None, Str(SWEEP)}
RawTradeTypes == {None, Str(<<"b","l","o","c","k">>)}
RawDirections == {None, Str(<<"b","u","l","l","i","s","h">>), Str(BEARISH)}
RawNotionals == {Num(F(0)), Num(F(10000000)), Num(F(100000000))}

BuilderInputs ==
    {[BaseRecord EXCEPT !.premium = p, !.volumeOpenInterestRatio = v,
                        !.delta = d, !.daysToExpiration = t,
                        !.type = ty, !.tradeType = tt,
                        !.direction = dir, !.darkpoolNotional = n] :
        p \in RawPremiums, v \in RawVolOis, d \in RawDeltas, t \in RawDtes,
        ty \in RawTypes, tt \in RawTradeTypes, dir \in RawDirections,
        n \in RawNotionals}

\* the records that differ from o in at most one field
OneFieldFrom(o) ==
    {[o EXCEPT !.premium = p] : p \in RawPremiums}
    \cup {[o EXCEPT !.volumeOpenInterestRatio = v] : v \in RawVolOis}
    \cup {[o EXCEPT !.delta = d] : d \in RawDeltas}
    \cup {[o EXCEPT !.daysToExpiration = t] : t \in RawDtes}
    \cup {[o EXCEPT !.type = ty] : ty \in RawTypes}
    \cup {[o EXCEPT !.tradeType = tt] : tt \in RawTradeTypes}
    \cup {[o EXCEPT !.direction = dir] : dir \in RawDirections}
    \cup {[o EXCEPT !.darkpoolNotional = n] : n \in RawNotionals}

EvaluateUnusual ==
    /\ \E o \in OneFieldFrom(opt) :
         /\ opt' = o
         /\ msg' = build_combined_ml_unusual_message(o)
    /\ builder' = "unusual"
    /\ UNCHANGED <<pipeVars, scoreVars, idVars>>

EvaluateFlow ==
    /\ \E o \in OneFieldFrom(opt) :
         /\ opt' = o
         /\ msg' = build_smart_money_flow_message(o)
    /\ builder' = "flow"
    /\ UNCHANGED <<pipeVars, scoreVars, idVars>>

-----------------------------------------------------------------------------
(* The record identity function on its own: the identity fields, their     *)
(* fallbacks and two other fields range over missing, falsy, numeric and   *)
(* text values; each step keys a record that differs in one field from the *)
(* one keyed before.                                                       *)

IdBases == {None, XYZ, Str(<<>>)}
IdSymbols == {XYZ, ABC}
IdStrikes == {None, Num(F(150)), Str(<<"1","5","0">>)}
IdExps == {None, Str(<<"2","0","2","6">>)}
IdPremiums == {None, Dollars(0), Dollars(600000)}
IdTimestamps == {None, Str(<<"1","7">>)}
IdTimes == {Str(<<"1","7">>), Str(<<"1","8">>)}
IdDeltas == {Num(F(1000)), Num(F(9500))}
IdTypes == {None, Str(SWEEP)}

IdInputs ==
    {[BaseRecord EXCEPT !.baseSymbol = b, !.symbol = sy, !.strikePrice = k,
                        !.expirationDate = e, !.premium = p,
                        !.timestamp = ts, !.time = tm,
                        !.delta = d, !.type = ty] :
        b \in IdBases, sy \in IdSymbols, k \in IdStrikes, e \in IdExps,
        p \in IdPremiums, ts \in IdTimestamps, tm \in IdTimes,
        d \in IdDeltas, ty \in IdTypes}

IdOneFieldFrom(o) ==
    {[o EXCEPT !.baseSymbol = b] : b \in IdBases}
    \cup {[o EXCEPT !.symbol = sy] : sy \in IdSymbols}
    \cup {[o EXCEPT !.strikePrice = k] : k \in IdStrikes}
    \cup {[o EXCEPT !.expirationDate = e] : e \in IdExps}
    \cup {[o EXCEPT !.premium = p] : p \in IdPremiums}
    \cup {[o EXCEPT !.timestamp = ts] : ts \in IdTimestamps}
    \cup {[o EXCEPT !.time = tm] : tm \in IdTimes}
    \cup {[o EXCEPT !.delta = d] : d \in IdDeltas}
    \cup {[o EXCEPT !.type = ty] : ty \in IdTypes}

KeyRecord ==
    /\ \E o \in IdOneFieldFrom(idrec) :
         /\ idrec' = o
         /\ uid' = get_unique_id_from_record(o)
    /\ previd' = idrec
    /\ prevuid' = uid
    /\ UNCHANGED <<pipeVars, scoreVars, buildVars>>

-----------------------------------------------------------------------------
(* specifications *)

PipeInit ==
    /\ seen_unusual_ids = {}
    /\ seen_flow_ids = {}
    /\ calls = [fk \in Feeds \X Keys |-> 0]
    /\ alerts = {}
    /\ task = "none"
    /\ rejected = {}
    /\ skipped = {}
    /\ polls = 0

ScoreIdle ==
    LET a == [premium |-> F(0), vol_oi |-> F(0), delta |-> F(0), dte |-> F(0),
              order_type |-> None, direction |-> NEUTRAL, notional |-> F(0)]
    IN  /\ args = a
        /\ score = ScoreOf(a)
        /\ final = EnsembleOf(a)

BuildIdle ==
    /\ opt = BaseRecord
    /\ builder = "none"
    /\ msg = NoMessage

IdIdle ==
    /\ idrec = BaseRecord
    /\ uid = get_unique_id_from_record(BaseRecord)
    /\ previd = BaseRecord
    /\ prevuid = get_unique_id_from_record(BaseRecord)

\* the polling pipeline
Init == PipeInit /\ ScoreIdle /\ BuildIdle /\ IdIdle
Next == run_unusual_options_task \/ run_options_flow_task
Spec == Init /\ [][Next]_vars

\* the scoring engine
ScoreInit ==
    /\ PipeInit /\ BuildIdle /\ IdIdle
    /\ args \in ScorerArgs
    /\ score = ScoreOf(args)
    /\ final = EnsembleOf(args)
ScoreNext ==
    \/ SetPremium \/ SetVolOi \/ SetDelta \/ SetDte
    \/ SetOrderType \/ SetDirection \/ SetNotional
SpecScore == ScoreInit /\ [][ScoreNext]_vars

\* the message builders
BuildInit ==
    /\ PipeInit /\ ScoreIdle /\ IdIdle
    /\ opt \in BuilderInputs
    /\ builder \in {"unusual", "flow"}
    /\ msg = IF builder = "unusual"
             THEN build_combined_ml_unusual_message(opt)
             ELSE build_smart_money_flow_message(opt)
BuildNext == EvaluateUnusual \/ EvaluateFlow
SpecBuild == BuildInit /\ [][BuildNext]_vars

\* the record identity function
IdInit ==
    /\ PipeInit /\ ScoreIdle /\ BuildIdle
    /\ idrec \in IdInputs
    /\ uid = get_unique_id_from_record(idrec)
    /\ previd = idrec
    /\ prevuid = uid
IdNext == KeyRecord
SpecId == IdInit /\ [][IdNext]_vars

-----------------------------------------------------------------------------
(* properties of the scoring engine, checked under SpecScore *)

\* 1 for TRUE, 0 for FALSE
Ind(b) == IF b THEN 1 ELSE 0

\* the order types of OrderTypes that hold the keyword, in any case
WithSweep ==
    {Str(<<"s","w","e","e","p">>),
     Str(<<"S","w","e","e","p","/","B","l","o","c","k">>)}
WithBlock ==
    {Str(BLOCK), Str(<<"S","w","e","e","p","/","B","l","o","c","k">>)}

\* the tier tables of the scorer, each tier written as what it adds to the
\* tier below it
TierSum(a) ==
    LET p == a.premium
        v == a.vol_oi
        d == Abs(a.delta)
        t == a.dte
    IN    20 * Ind(GE(p, 50000 * 20)) + 10 * Ind(GE(p, 250000 * 20))
            + 10 * Ind(GE(p, 1000000 * 20))
        + 10 * Ind(GE(v, 50)) + 10 * Ind(GE(v, 100)) + 10 * Ind(GE(v, 200))
        + 10 * Ind(GE(d, 5000)) + 5 * Ind(GE(d, 7000)) + 5 * Ind(GE(d, 9000))
        + 10 * Ind(LE(t, 30)) + 10 * Ind(LE(t, 10))
        + 15 * Ind(a.order_type \in WithSweep)
        + 20 * Ind(a.order_type \in WithBlock)
        + 10 * Ind(a.direction \in {BULLISH, BEARISH})

\* C6: ml_timeframe_score is min(100, sum of the six tiered bucket
\* contributions), SWEEP and BLOCK counted independently, and lies in
\* [0, 100] for every input, negative premium and very large delta included.
C6_ScoreIsClampedTierSum ==
    /\ score = (IF TierSum(args) > 100 THEN 100 ELSE TierSum(args))
    /\ score \in 0..100

\* C6 witness: both keywords match, the premium is negative, the delta is
\* far outside [-1, 1] and the sum of the buckets exceeds 100
C6_Witness ==
    /\ args.order_type \in WithSweep \cap WithBlock
    /\ args.premium = F(-100000 * Twentieths)
    /\ args.delta = F(500000)
    /\ TierSum(args) > 100
    /\ score = 100

\* the score of the timeframe with premium decay kp/20 and delta decay kd/20
DecayedScore(a, kp, kd) ==
    ml_timeframe_score(Times(a.premium, kp), a.vol_oi, Times(a.delta, kd),
                       a.dte, a.order_type, a.direction)

\* the sum of the five timeframe scores: decays 1.0/0.9/0.85/0.8/0.75 of the
\* premium and 1.0/0.95/0.9/0.85/0.8 of the delta
FiveSum(a) ==
    DecayedScore(a, 20, 20) + DecayedScore(a, 18, 19) + DecayedScore(a, 17, 18)
      + DecayedScore(a, 16, 17) + DecayedScore(a, 15, 16)

\* the dark-pool boost table
BoostTier(n) ==
    10 * Ind(GE(n, 10000000)) + 10 * Ind(GE(n, 50000000))
      + 10 * Ind(GE(n, 100000000))

\* a fifth of n rounded to the nearest integer (a fifth is never a tie)
RoundFifth(n) == (2 * n + 5) \div 10

\* C7: the direction is BULLISH iff the mean of the five timeframe scores is
\* >= 60 and BEARISH otherwise; the final score is min(100, round(mean) +
\* boost), the boost added once after averaging, never to a timeframe score,
\* and without effect on the direction.
C7_EnsembleResult ==
    LET total == FiveSum(args)
        sum   == RoundFifth(total) + BoostTier(args.notional)
    IN  /\ final.dir = (IF total >= 5 * 60 THEN BULLISH ELSE BEARISH)
        /\ final.score = (IF sum > 100 THEN 100 ELSE sum)
        /\ final.preds["5m"] = DecayedScore(args, 20, 20)
        /\ final.preds["15m"] = DecayedScore(args, 18, 19)
        /\ final.preds["30m"] = DecayedScore(args, 17, 18)
        /\ final.preds["60m"] = DecayedScore(args, 16, 17)
        /\ final.preds["EOD"] = DecayedScore(args, 15, 16)

\* C7 witness: the mean is below 60, the boost is the largest one and lifts
\* the score to 70 or more, and the direction stays BEARISH
C7_Witness ==
    /\ FiveSum(args) < 5 * 60
    /\ args.notional = F(100000000)
    /\ final.score >= 70
    /\ final.score < 100
    /\ final.dir = BEARISH

\* a float that is not nan and not below another
Up(x, y) == ~x.nan /\ ~y.nan /\ y.v >= x.v

\* the keywords an order type of OrderTypes holds
Keywords(ot) ==
    (IF ot \in WithSweep THEN {"SWEEP"} ELSE {})
      \cup (IF ot \in WithBlock THEN {"BLOCK"} ELSE {})

\* C8: with every other input fixed, the single-timeframe score and the
\* boosted ensemble score do not decrease when the premium, the vol/OI ratio,
\* |delta| or the dark-pool notional grows or a keyword is added to the order
\* type, and do not increase when the days to expiration grow.
C8_Monotone ==
    [][ /\ (args' = [args EXCEPT !.premium = args'.premium]
              /\ Up(args.premium, args'.premium))
           => score' >= score /\ final'.score >= final.score
        /\ (args' = [args EXCEPT !.vol_oi = args'.vol_oi]
              /\ Up(args.vol_oi, args'.vol_oi))
           => score' >= score /\ final'.score >= final.score
        /\ (args' = [args EXCEPT !.delta = args'.delta]
              /\ Up(Abs(args.delta), Abs(args'.delta)))
           => score' >= score /\ final'.score >= final.score
        /\ (args' = [args EXCEPT !.order_type = args'.order_type]
              /\ Keywords(args.order_type) \subseteq Keywords(args'.order_type))
           => score' >= score /\ final'.score >= final.score
        /\ (args' = [args EXCEPT !.notional = args'.notional]
              /\ Up(args.notional, args'.notional))
           => score' >= score /\ final'.score >= final.score
        /\ (args' = [args EXCEPT !.dte = args'.dte]
              /\ Up(args.dte, args'.dte))
           => score' <= score /\ final'.score <= final.score
      ]_vars

\* C8 witness: a scored input whose final score is strictly above what the
\* same input gets with a notional of 9.9M, with a smaller premium and with
\* more days to expiration
C8_Witness ==
    /\ args.notional = F(10000000)
    /\ final.score > EnsembleOf([args EXCEPT !.notional = F(9900000)]).score
    /\ args.premium = F(250000 * Twentieths)
    /\ final.score
         > EnsembleOf([args EXCEPT !.premium = F(50000 * Twentieths)]).score
    /\ args.dte = F(10)
    /\ score > ScoreOf([args EXCEPT !.dte = F(30)])

-----------------------------------------------------------------------------
(* properties of the message builders, checked under SpecBuild *)

\* the normalised premium and notional of the record under evaluation
OptPremium == safe_float(opt.premium, F(0), Twentieths)
OptNotional == safe_float(opt.darkpoolNotional, F(0), 1)

\* the direction the builder in use hands to the scorer
OptDirection ==
    IF builder = "unusual"
    THEN classify_direction_from_delta(safe_float(opt.delta, F(0), DeltaUnit))
    ELSE Upper(PyStr(Or(opt.direction, Empty), 1))

\* the scorer inputs the builder in use derives from the record
OptArgs ==
    [premium    |-> OptPremium,
     vol_oi     |-> safe_float(opt.volumeOpenInterestRatio, F(0), Tenths),
     delta      |-> safe_float(opt.delta, F(0), DeltaUnit),
     dte        |-> safe_float(opt.daysToExpiration, F(0), Tenths),
     order_type |-> Or(Or(opt.type, opt.tradeType), Empty),
     direction  |-> OptDirection,
     notional   |-> OptNotional]

\* the boosted, capped score of the record under evaluation
OptBoosted ==
    LET sum == RoundFifth(FiveSum(OptArgs)) + BoostTier(OptNotional)
    IN  IF sum > 100 THEN 100 ELSE sum

\* C4: both builders return no alert for every record whose premium is below
\* MIN_PREMIUM_USD and for every record at or above it whose boosted score
\* is below MIN_CONFIDENCE_SCORE; so every alert has premium >= 50,000 and
\* boosted score >= 70.
C4_FloorsAreHard ==
    /\ LT(OptPremium, 50000 * Twentieths) => ~msg.alert
    /\ (GE(OptPremium, 50000 * Twentieths) /\ OptBoosted < 70) => ~msg.alert
    /\ msg.alert => /\ GE(msg.premium, 50000 * Twentieths)
                    /\ msg.ensemble_score >= 70

\* C9, as stated: for the example record the unusual-activity builder's 5m
\* buckets are 40 + 30 + 20 + 20 + 15 + 10 = 135, clamped to 100, the four
\* decayed timeframes score lower than the 5m one, the direction is BULLISH,
\* the whale trigger is set and an alert is produced.
C9_ExampleAsStated ==
    (opt = ExampleRecord /\ builder = "unusual") =>
        /\ premium_weight(OptArgs.premium) = 40
        /\ vol_oi_weight(OptArgs.vol_oi) = 30
        /\ delta_weight(OptArgs.delta) = 20
        /\ dte_weight(OptArgs.dte) = 20
        /\ order_type_weight(OptArgs.order_type) = 15
        /\ direction_weight(OptArgs.direction) = 10
        /\ msg.alert
        /\ msg.tf_preds["5m"] = 100
        /\ \A l \in Labels \ {"5m"} : msg.tf_preds[l] < msg.tf_preds["5m"]
        /\ msg.ensemble_dir = BULLISH
        /\ msg.whale

\* C9, amended: for the example record the 5m buckets are 30 (600,000 is in
\* the >= 250K tier) + 30 + 20 + 20 + 15 + 10 = 125, clamped to 100; the
\* four decayed timeframes also score 100; the mean is 100 >= 60, so the
\* direction is BULLISH with score 100; the whale trigger is set and an
\* alert is produced.
C9_ExampleAmended ==
    (opt = ExampleRecord /\ builder = "unusual") =>
        /\ premium_weight(OptArgs.premium) = 30
        /\ vol_oi_weight(OptArgs.vol_oi) = 30
        /\ delta_weight(OptArgs.delta) = 20
        /\ dte_weight(OptArgs.dte) = 20
        /\ order_type_weight(OptArgs.order_type) = 15
        /\ direction_weight(OptArgs.direction) = 10
        /\ OptArgs.direction = BULLISH
        /\ msg.alert
        /\ \A l \in Labels : msg.tf_preds[l] = 100
        /\ msg.ensemble_dir = BULLISH
        /\ msg.ensemble_score = 100
        /\ msg.whale

\* C9 witness: the unusual-activity builder has evaluated the example record
C9_Witness ==
    /\ opt = ExampleRecord
    /\ builder = "unusual"
    /\ msg.alert

\* C10: the label of an alert follows the unboosted mean alone: an alert for
\* a record with notional below 10,000,000 is BULLISH whatever its delta and
\* direction field, and an alert is BEARISH only when the boost is non-zero
\* and the unboosted mean is below 60.
C10_LabelFollowsMean ==
    msg.alert =>
        /\ msg.ensemble_dir \in {BULLISH, BEARISH}
        /\ LT(OptNotional, 10000000) => msg.ensemble_dir = BULLISH
        /\ msg.ensemble_dir = BEARISH =>
               /\ BoostTier(OptNotional) > 0
               /\ FiveSum(OptArgs) < 5 * 60

\* C10 witness: the flow builder alerts BULLISH on a record whose delta is
\* -0.95, whose direction field is BEARISH and whose notional is 0
C10_Witness ==
    /\ builder = "flow"
    /\ msg.alert
    /\ msg.ensemble_dir = BULLISH
    /\ opt.delta = Num(F(-9500))
    /\ opt.direction = Str(BEARISH)
    /\ opt.darkpoolNotional = Num(F(0))

\* a BEARISH alert exists: the boost lifts a mean below 60 over the floor
C10_BearishAlert ==
    /\ msg.alert
    /\ msg.ensemble_dir = BEARISH

-----------------------------------------------------------------------------
(* properties of the record identity function, checked under SpecId *)

\* two records agree on the five identity fields
SameFive(a, b) ==
    /\ a.baseSymbol = b.baseSymbol
    /\ a.strikePrice = b.strikePrice
    /\ a.expirationDate = b.expirationDate
    /\ a.premium = b.premium
    /\ a.timestamp = b.timestamp

\* C5, as stated: two records that agree on baseSymbol, strikePrice,
\* expirationDate, premium and timestamp and differ only in another field
\* get the same key.
C5_FiveFieldsAsStated ==
    (SameFive(previd, idrec) /\ previd # idrec) => uid = prevuid

\* C5, amended: two records that agree on the five identity fields and on
\* the two fallback fields, symbol (read when baseSymbol is missing or
\* falsy) and time (read when timestamp is missing or falsy), get the same
\* key.
C5_FiveFieldsAndFallbacks ==
    (/\ SameFive(previd, idrec)
     /\ previd.symbol = idrec.symbol
     /\ previd.time = idrec.time) => uid = prevuid

\* C5 witness: two keyed records that differ in delta alone, with one key
C5_Witness ==
    /\ previd.delta # idrec.delta
    /\ previd = [idrec EXCEPT !.delta = previd.delta]
    /\ uid = prevuid
    /\ uid = get_unique_id_from_record(idrec)

-----------------------------------------------------------------------------
(* properties of the polling pipeline, checked under Spec *)

SeenOf(f) == IF f = "unusual" THEN seen_unusual_ids ELSE seen_flow_ids

\* C1: send_telegram_message is called at most once per key and feed, and
\* exactly the keys it was called for are in the feed's seen set, so a later
\* record with a seen key is passed over.
C1_AtMostOnce ==
    \A f \in Feeds : \A k \in Keys :
        /\ calls[<<f, k>>] <= 1
        /\ (k \in SeenOf(f)) <=> (calls[<<f, k>>] = 1)
        /\ (k \in SeenOf(f)) <=> (\E a \in alerts : a.feed = f /\ a.key = k)

\* C1 witness: a record came back after its key was alerted and was passed
\* over, with one call for its key
C1_Witness ==
    \E f \in Feeds : \E r \in Records :
        /\ <<f, r>> \in skipped
        /\ UnusualMessage[r].alert
        /\ calls[<<f, KeyOf[r]>>] = 1

\* every key in a seen set belongs to an alerted record that passed both
\* floors
SeenOnlyAfterAlert ==
    \A f \in Feeds : \A k \in SeenOf(f) :
        \E a \in alerts :
            /\ a.feed = f
            /\ a.key = k
            /\ get_unique_id_from_record(a.rec) = k
            /\ ~LT(safe_float(a.rec.premium, F(0), Twentieths),
                   MIN_PREMIUM_USD * Twentieths)
            /\ a.msg.alert
            /\ a.msg.ensemble_score >= MIN_CONFIDENCE_SCORE

\* C2, as stated: a key is in a seen set only if a record with that key
\* passed both floors and was handed to send_telegram_message; a record
\* rejected by a floor is evaluated again on every later poll in which it
\* appears, that is, it is never passed over by the dedup check afterwards.
C2_AsStated ==
    /\ []SeenOnlyAfterAlert
    /\ [][(skipped' \ skipped) \cap rejected = {}]_vars

\* C2, amended: a key is in a seen set only if a record with that key passed
\* both floors and was handed to send_telegram_message; a rejected record is
\* never itself the cause of an insertion, and it is evaluated again on
\* every later poll in which it appears unless a different record with the
\* same key has been alerted on that feed in the meantime.
C2_Amended ==
    /\ SeenOnlyAfterAlert
    /\ \A fr \in rejected :
         \A a \in alerts : ~(a.feed = fr[1] /\ a.rec = fr[2])
    /\ \A fr \in skipped :
         \E a \in alerts :
            /\ a.feed = fr[1]
            /\ a.key = KeyOf[fr[2]]
            /\ (fr \in rejected => a.rec # fr[2])

\* C2 witness: a record rejected by the confidence floor is later passed
\* over because another record with its key was alerted, while a record
\* rejected by the premium floor has left no key
C2_Witness ==
    /\ <<"unusual", QuietRecord>> \in rejected
    /\ <<"unusual", QuietRecord>> \in skipped
    /\ <<"unusual", SmallRecord>> \in rejected
    /\ KeyOf[SmallRecord] \notin seen_unusual_ids

\* C3: each task reads and writes its own seen set only: a run of one task
\* leaves the other feed's seen set, calls and alerts as they were, and
\* passes a record over only for a key in its own seen set.
C3_NoCrossSuppression ==
    [][ \A f \in Feeds :
          (task' = f /\ polls' # polls) =>
            LET g == CHOOSE h \in Feeds : h # f
            IN  /\ SeenOf(g)' = SeenOf(g)
                /\ \A k \in Keys : calls'[<<g, k>>] = calls[<<g, k>>]
                /\ {a \in alerts' : a.feed = g} = {a \in alerts : a.feed = g}
                /\ \A fr \in skipped' \ skipped :
                      fr[1] = f /\ KeyOf[fr[2]] \in SeenOf(f)'
                /\ \A fr \in rejected' \ rejected : fr[1] = f
      ]_vars

\* C3 witness: one key alerted on both feeds, once each
C3_Witness ==
    \E k \in Keys :
        /\ k \in seen_unusual_ids
        /\ k \in seen_flow_ids
        /\ calls[<<"unusual", k>>] = 1
        /\ calls[<<"flow", k>>] = 1

=============================================================================
